---- MODULE Spec2Model ----
(***************************************************************************)
(* Model of Matching::MatchingEngine (src/MatchingEngine.hpp, lines 1-268, *)
(* the final version of the header).  The engine is a sequential state     *)
(* machine: every public call runs to completion, so each call is one      *)
(* action.  The two books are std::multimap, modelled as sequences in      *)
(* iteration order; the identifier index ids_ maps an id to an iterator,   *)
(* modelled as the address of the multimap node it points at.              *)
(***************************************************************************)
EXTENDS Integers, Sequences, FiniteSets, TLC

\* ---- bounds of the model ----
MaxId    == 3
MaxPrice == 2
MaxQty   == 2
MaxCum   == 1
MaxNodes == 2

OrderIds == 1..MaxId
Prices   == 1..MaxPrice
Qtys     == 0..MaxQty
Cums     == 0..MaxCum
Addrs    == 1..MaxNodes

\* ---- Order (struct Order) ----
Side      == {"Buy", "Sell"}
OrderType == {"Market", "Limit"}

Order == [order_id_ : OrderIds, price_ : Prices, quantity_ : Qtys,
          cum_qty_ : Cums, side_ : Side, type_ : OrderType]

\* ---- messages (struct Fill, Reject, Cancel, OrderAck) ----
NotEnoughLiquidityMessage == "Not enough liquidity."
IdAlreadyExistsMessage    == "Id already exists."
IdNotFoundMessage         == "Id not found."

FillMsg(id, qty, price) == [msg |-> "Fill", order_id_ |-> id, quantity_ |-> qty, price_ |-> price]
RejectMsg(id, text)     == [msg |-> "Reject", order_id_ |-> id, message_ |-> text]
CancelMsg(id)           == [msg |-> "Cancel", order_id_ |-> id]
OrderAckMsg(id)         == [msg |-> "OrderAck", order_id_ |-> id]

VARIABLES
    bids_,    \* TBids: sequence of nodes, begin() first
    asks_,    \* TAcks: sequence of nodes, begin() first
    ids_,     \* function order id -> node address (the stored iterator)
    hub,      \* messages sent to message_hub_ by the call in call, in order
    call,     \* the call just made (its name, the Order passed in, the Order as
              \* the call left it), "none" once the caller has moved on
    pre,      \* bids_, asks_ and ids_ as they were when the call in call was made
    filled,   \* ids of resting orders a match consumed, until the id is accepted again
    frame,    \* the activation of ProcessOrder while its loop runs, when the
              \* steps of the loop are taken one by one; NoFrame otherwise
    got,      \* for the id of every resting order, the quantity of all the Fill
              \* messages sent with that id since the order was accepted
    crashed   \* TRUE once an erase through a dangling iterator aborted the process

vars == <<bids_, asks_, ids_, hub, call, pre, filled, frame, got, crashed>>

\* ---- helpers on sequences ----
Range(s) == {s[i] : i \in 1..Len(s)}

RemoveAt(s, i) == [j \in 1..(Len(s) - 1) |-> IF j < i THEN s[j] ELSE s[j + 1]]

InsertAt(s, i, e) ==
    [j \in 1..(Len(s) + 1) |-> IF j < i THEN s[j] ELSE IF j = i THEN e ELSE s[j - 1]]

\* Better<TSide>: std::greater for the Buy book, std::less for the Sell book.
Better(side, a, b) == IF side = "Buy" THEN a > b ELSE a < b

Opposite(side) == IF side = "Buy" THEN "Sell" ELSE "Buy"

\* quantity_ - cum_qty_ ; TQty is uint32_t, and the quantities of the model stay
\* far below 2^32, so the difference wraps exactly when cum_qty_ > quantity_
Leaves(o) == o.quantity_ - o.cum_qty_

\* a multimap node: the Order it stores, its address, and seq, the rank of
\* its insertion among the nodes now alive (1 = oldest)
\* Node storing the order with cum_qty_ back at 0
Node_CumReset(o, addr, seq) ==
    [order_id_ |-> o.order_id_, price_ |-> o.price_, quantity_ |-> o.quantity_,
     cum_qty_ |-> 0, side_ |-> o.side_, type_ |-> o.type_,
     node |-> addr, seq |-> seq]

Node(o, addr, seq) ==
    [order_id_ |-> o.order_id_, price_ |-> o.price_, quantity_ |-> o.quantity_,
     cum_qty_ |-> o.cum_qty_, side_ |-> o.side_, type_ |-> o.type_,
     node |-> addr, seq |-> seq]

LiveAddrs(b, a) == {n.node : n \in Range(b) \cup Range(a)}
FreeAddrs(b, a) == Addrs \ LiveAddrs(b, a)

\* ---- std::multimap ----
\* upper_bound(key) under the book's comparator: the first position whose key
\* is ordered strictly after key, Len+1 when there is none.
UpperBound(m, side, key) ==
    IF \E i \in 1..Len(m) : Better(side, key, m[i].price_)
    THEN CHOOSE i \in 1..Len(m) :
            /\ Better(side, key, m[i].price_)
            /\ \A j \in 1..(i - 1) : ~Better(side, key, m[j].price_)
    ELSE Len(m) + 1

\* lower_bound(key): the first position whose key is not ordered before key
LowerBound(m, side, key) ==
    IF \E i \in 1..Len(m) : ~Better(side, m[i].price_, key)
    THEN CHOOSE i \in 1..Len(m) :
            /\ ~Better(side, m[i].price_, key)
            /\ \A j \in 1..(i - 1) : Better(side, m[j].price_, key)
    ELSE Len(m) + 1

\* Emplace that drops the nodes the map held
Emplace_Alone(m, side, n) == <<n>>

\* Emplace with the node put before the nodes with an equivalent key
Emplace_AtLowerBound(m, side, n) == InsertAt(m, LowerBound(m, side, n.price_), n)

\* multimap::emplace(key, value): the new node goes after every node with an
\* equivalent key.
Emplace(m, side, n) == InsertAt(m, UpperBound(m, side, n.price_), n)

\* unordered_map::erase(key)
IdsErase(ids, id) == [k \in (DOMAIN ids) \ {id} |-> ids[k]]

\* unordered_map::emplace(key, value): no effect when the key is present
IdsEmplace(ids, id, addr) ==
    IF id \in DOMAIN ids THEN ids
    ELSE [k \in (DOMAIN ids) \cup {id} |-> IF k = id THEN addr ELSE ids[k]]

\* seq is kept as a rank among the live nodes: only its order matters.
Rank(n, live) == Cardinality({x \in live : x.seq <= n.seq})

\* the stamp of a node inserted now: later than every live node
NextSeq(live) == IF live = {} THEN 1 ELSE 1 + (CHOOSE k \in {x.seq : x \in live} :
                                                  \A x \in live : x.seq <= k)

Renumber(m, live) == [i \in 1..Len(m) |-> [m[i] EXCEPT !.seq = Rank(m[i], live)]]

\* ---- MatchingEngine::Fill ----
\* Fill taking qty off quantity_ instead of adding it to cum_qty_
Fill_Shrinks(order, qty, price) ==
    [order |-> [order EXCEPT !.quantity_ = @ - qty],
     msg   |-> FillMsg(order.order_id_, qty, price)]

Fill(order, qty, price) ==
    [order |-> [order EXCEPT !.cum_qty_ = @ + qty],
     msg   |-> FillMsg(order.order_id_, qty, price)]

\* ---- MatchingEngine::MatchOne ----
\* Min returning the larger of the two
Min_Larger(a, b) == IF a < b THEN b ELSE a

\* std::min
Min(a, b) == IF a < b THEN a ELSE b

\* Crosses without the comparison of the prices
Crosses_AnyPrice(order, first_order, otherSide) == TRUE

\* Crosses in which an equal price does not cross
Crosses_Strict(order, first_order, otherSide) ==
    \/ (Better(otherSide, first_order.price_, order.price_) /\ order.type_ = "Limit")
    \/ order.type_ = "Market"

\* Crosses comparing the prices for a Market order too
Crosses_MarketPriced(order, first_order, otherSide) ==
    ~Better(otherSide, order.price_, first_order.price_)

\* the condition of the if at lines 237-238; the comparator is the one of the
\* book the incoming order is matched against
Crosses(order, first_order, otherSide) ==
    \/ (~Better(otherSide, order.price_, first_order.price_) /\ order.type_ = "Limit")
    \/ order.type_ = "Market"

\* TradePrice taking the incoming order's price
TradePrice_Incoming(order, first_order) == order.price_

\* the price handed to both Fill calls
TradePrice(order, first_order) == first_order.price_

\* Filled with the message of the second Fill call lost
Filled_OneMessage(f1, f2, incomingFirst) ==
    [order       |-> IF incomingFirst THEN f1.order ELSE f2.order,
     first_order |-> IF incomingFirst THEN f2.order ELSE f1.order,
     sent        |-> <<f1.msg>>]

\* the two orders after their Fill calls f1 then f2, and the messages sent;
\* incomingFirst tells which of the two calls was on the incoming order
Filled(f1, f2, incomingFirst) ==
    [order       |-> IF incomingFirst THEN f1.order ELSE f2.order,
     first_order |-> IF incomingFirst THEN f2.order ELSE f1.order,
     sent        |-> <<f1.msg, f2.msg>>]

\* SendFills with the resting order's Fill sent first
SendFills_RestingFirst(order, first_order, min) ==
    Filled(Fill(first_order, min, TradePrice(order, first_order)),
           Fill(order, min, TradePrice(order, first_order)), FALSE)

\* the two Fill calls, in program order
SendFills(order, first_order, min) ==
    Filled(Fill(order, min, TradePrice(order, first_order)),
           Fill(first_order, min, TradePrice(order, first_order)), TRUE)

\* the id erased from ids_ when the resting order is consumed
ErasedId(order, first_order) == order.order_id_

NoMatch(order, other_side, ids) ==
    [ret |-> 0, order |-> order, other |-> other_side, ids |-> ids, sent |-> <<>>]

\* Consumed that never sees a resting order as filled
Consumed_Never(first_order) == FALSE

\* the test at line 245, made after the two Fill calls
Consumed(first_order) == first_order.quantity_ = first_order.cum_qty_

\* lines 245-251: the erase of a consumed resting order, and the return
Matched(order, other_side, ids, min, f) ==
    IF Consumed(f.first_order)
    THEN [ret |-> min, order |-> f.order, other |-> Tail(other_side),
          ids |-> IdsErase(ids, ErasedId(order, other_side[1])), sent |-> f.sent]
    ELSE [ret |-> min, order |-> f.order, other |-> <<f.first_order>> \o Tail(other_side),
          ids |-> ids, sent |-> f.sent]

\* lines 240-243
Trade(order, other_side, ids, min) ==
    Matched(order, other_side, ids, min, SendFills(order, other_side[1], min))

MatchOne(order, other_side, otherSide, ids) ==
    IF other_side = <<>> THEN NoMatch(order, other_side, ids)
    ELSE IF Leaves(order) = 0 THEN NoMatch(order, other_side, ids)
    ELSE IF Crosses(order, other_side[1], otherSide)
         THEN Trade(order, other_side, ids, Min(Leaves(order), Leaves(other_side[1])))
         ELSE NoMatch(order, other_side, ids)

\* LoopAgain that ends the loop after the first call of MatchOne
LoopAgain_Never(ret) == FALSE

\* the condition of the while at line 202: MatchOne returned nonzero
LoopAgain(ret) == ret # 0

\* while (MatchOne(order, templates.Other));
RECURSIVE MatchLoop(_, _, _, _, _)
RECURSIVE Continue(_, _, _)
MatchLoop(order, other_side, otherSide, ids, sent) ==
    Continue(MatchOne(order, other_side, otherSide, ids), otherSide, sent)

\* the loop after one call of MatchOne returned r
Continue(r, otherSide, sent) ==
    IF LoopAgain(r.ret)
    THEN MatchLoop(r.order, r.other, otherSide, r.ids, sent \o r.sent)
    ELSE [order |-> r.order, other |-> r.other, ids |-> r.ids, sent |-> sent \o r.sent]

\* ---- MatchingEngine::ProcessOrder ----
\* RestsOnBook without the test of the order type
RestsOnBook_AnyType(order) == TRUE

\* the test at line 206: only a Limit order is emplaced
RestsOnBook(order) == order.type_ = "Limit"

\* HasRemainder that always sees a remainder
HasRemainder_Always(order) == TRUE

\* the test at line 204, made once the loop has ended
HasRemainder(order) == order.cum_qty_ # order.quantity_

\* addr is the address the allocator gives the node when the order is emplaced.
\* lines 204-220: what is done with the order once the loop has returned m
Dispose(this, m, addr) ==
    IF HasRemainder(m.order)
    THEN IF RestsOnBook(m.order)
         THEN [order |-> m.order,
               this  |-> Emplace(this, m.order.side_,
                                 Node(m.order, addr, NextSeq(Range(this) \cup Range(m.other)))),
               other |-> m.other,
               ids   |-> IdsEmplace(m.ids, m.order.order_id_, addr),
               sent  |-> m.sent \o <<OrderAckMsg(m.order.order_id_)>>]
         ELSE [order |-> m.order, this |-> this, other |-> m.other, ids |-> m.ids,
               sent |-> m.sent \o <<CancelMsg(m.order.order_id_)>>]
    ELSE [order |-> m.order, this |-> this, other |-> m.other, ids |-> m.ids,
          sent |-> m.sent]

\* NoLiquidity without the test of the order type
NoLiquidity_AnyType(order, other) == other = <<>>

\* the condition of the if at line 195: a Market order finds Other empty
NoLiquidity(order, other) == order.type_ = "Market" /\ other = <<>>

ProcessOrder(order, this, other, ids, addr) ==
    IF NoLiquidity(order, other)
    THEN [order |-> order, this |-> this, other |-> other, ids |-> ids,
          sent |-> <<RejectMsg(order.order_id_, NotEnoughLiquidityMessage)>>]
    ELSE Dispose(this, MatchLoop(order, other, Opposite(order.side_), ids, <<>>), addr)

\* the addresses the allocator can give the node emplaced at line 208 once the
\* loop has returned m; {0} when the call emplaces no node
Alloc(order, this, other, m) ==
    IF /\ ~NoLiquidity(order, other)
       /\ HasRemainder(m.order)
       /\ RestsOnBook(m.order)
    THEN FreeAddrs(this, m.other)
    ELSE {0}

\* ---- state after construction ----
NoCall == [op |-> "none"]
NoPre  == [bids_ |-> <<>>, asks_ |-> <<>>, ids_ |-> <<>>]
NoFrame == [pc |-> "idle"]

Init ==
    /\ bids_ = <<>>
    /\ asks_ = <<>>
    /\ ids_ = <<>>
    /\ hub = <<>>
    /\ call = NoCall
    /\ pre = NoPre
    /\ filled = {}
    /\ frame = NoFrame
    /\ got = <<>>
    /\ crashed = FALSE

Snapshot == [bids_ |-> bids_, asks_ |-> asks_, ids_ |-> ids_]

BookIds(b, a) == {n.order_id_ : n \in Range(b) \cup Range(a)}

\* the books as left by a call, seq renumbered
SetBooks(b, a) ==
    /\ bids_' = Renumber(b, Range(b) \cup Range(a))
    /\ asks_' = Renumber(a, Range(b) \cup Range(a))

\* the quantity of the Fill messages of sent that carry the given id
RECURSIVE FillQty(_, _)
FillQty(sent, id) ==
    IF sent = <<>> THEN 0
    ELSE (IF sent[1].msg = "Fill" /\ sent[1].order_id_ = id THEN sent[1].quantity_ ELSE 0)
           + FillQty(Tail(sent), id)

\* got once a call that sent the messages sent has left the books b and a;
\* fresh holds the id of the order the call accepted
GotAfter(b, a, sent, fresh) ==
    [id \in BookIds(b, a) |->
        (IF id \in DOMAIN got /\ id \notin fresh THEN got[id] ELSE 0) + FillQty(sent, id)]

\* ---- MatchingEngine::SubmitNewOrder ----
\* ids_.find(order.order_id_) != ids_.cend()
IdFound(ids, id) == id \in DOMAIN ids

\* RejectedOrder with cum_qty_ reset before the look-up of the id
RejectedOrder_Reset(order) == [order EXCEPT !.cum_qty_ = 0]

\* the caller's Order after a call that returned at line 151
RejectedOrder(order) == order

\* ResetOrder leaving cum_qty_ as the caller supplied it
ResetOrder_Keep(order) == order

\* the caller's Order when ProcessOrder is entered (line 154)
ResetOrder(order) == [order EXCEPT !.cum_qty_ = 0]

\* Templates<TBids, TAcks> or Templates<TAcks, TBids> (lines 156-166)
This(order)  == IF order.side_ = "Buy" THEN bids_ ELSE asks_
Other(order) == IF order.side_ = "Buy" THEN asks_ ELSE bids_

\* the books and ids_ when ProcessOrder has returned r
Settle(order, r) ==
    /\ IF order.side_ = "Buy"
       THEN SetBooks(r.this, r.other)
       ELSE SetBooks(r.other, r.this)
    /\ ids_' = r.ids
    /\ filled' = (filled \ {order.order_id_})
                    \cup (BookIds(Other(order), <<>>) \ BookIds(r.other, <<>>))
    /\ got' = GotAfter(r.this, r.other, r.sent, {order.order_id_})
    /\ UNCHANGED crashed

\* the state when ProcessOrder has returned r
Return(order, r) ==
    /\ Settle(order, r)
    /\ hub' = r.sent
    /\ call' = [op |-> "SubmitNewOrder", arg |-> order, order |-> r.order]

SubmitNewOrder(order) ==
    /\ ~crashed
    /\ call.op = "none"
    /\ frame = NoFrame
    /\ UNCHANGED frame
    /\ pre' = Snapshot
    /\ IF IdFound(ids_, order.order_id_)
       THEN /\ hub' = <<RejectMsg(order.order_id_, IdAlreadyExistsMessage)>>
            /\ call' = [op |-> "SubmitNewOrder", arg |-> order, order |-> RejectedOrder(order)]
            /\ UNCHANGED <<bids_, asks_, ids_, filled, got, crashed>>
       ELSE \E addr \in Alloc(ResetOrder(order), This(order), Other(order),
                               MatchLoop(ResetOrder(order), Other(order),
                                         Opposite(order.side_), ids_, <<>>)) :
              Return(order, ProcessOrder(ResetOrder(order), This(order), Other(order),
                                         ids_, addr))

\* ---- MatchingEngine::CancelExistingOrder ----
IsLive(addr, b, a) == addr \in LiveAddrs(b, a)

\* the node an iterator points at, when that address holds a live node
NodeAt(addr, b, a) == CHOOSE n \in Range(b) \cup Range(a) : n.node = addr

PosOf(m, addr) == CHOOSE i \in 1..Len(m) : m[i].node = addr

\* res->second->second.side_ : the side of the node the stored iterator points
\* at; an iterator whose node was erased reads freed memory, any value.
SidesRead(addr, b, a) == IF IsLive(addr, b, a) THEN {NodeAt(addr, b, a).side_} ELSE Side

\* the sides of order_to_cancel for which CancelExistingOrder has a branch
CancelBranch(side) == side = "Buy"

Outcome(b, a, ids, sent, crash) ==
    [bids_ |-> b, asks_ |-> a, ids_ |-> ids, sent |-> sent, crashed |-> crash]

\* lines 179-187: the outcomes when the id is found, it the stored iterator
\* and side the value read for order_to_cancel.side_
CancelFound(order, b, a, ids, it, side) ==
    IF CancelBranch(side)
    THEN IF IsLive(it, b, a) /\ NodeAt(it, b, a).side_ = "Buy"
         THEN \* bids_.erase(res->second); ids_.erase(id); SendCancel
              {Outcome(RemoveAt(b, PosOf(b, it)), a, IdsErase(ids, order.order_id_),
                       <<CancelMsg(order.order_id_)>>, FALSE)}
         ELSE \* erase through an iterator that is not one of bids_: the
              \* process aborts, or the nodes of the books stay as they are
              {Outcome(b, a, ids, <<>>, TRUE),
               Outcome(b, a, IdsErase(ids, order.order_id_),
                       <<CancelMsg(order.order_id_)>>, FALSE)}
    ELSE {Outcome(b, a, ids, <<>>, FALSE)}

\* NotFound that sends nothing
NotFound_Silent(order, b, a, ids) == {Outcome(b, a, ids, <<>>, FALSE)}

\* lines 172-177: the id is not in ids_
NotFound(order, b, a, ids) ==
    {Outcome(b, a, ids, <<RejectMsg(order.order_id_, IdNotFoundMessage)>>, FALSE)}

\* every outcome of a call of CancelExistingOrder(order) in the given state
CancelResults(order, b, a, ids) ==
    IF ~IdFound(ids, order.order_id_)
    THEN NotFound(order, b, a, ids)
    ELSE UNION { CancelFound(order, b, a, ids, ids[order.order_id_], side)
                 : side \in SidesRead(ids[order.order_id_], b, a) }

\* the books and ids_ when the call has returned with outcome r
CancelSettle(r) ==
    /\ SetBooks(r.bids_, r.asks_)
    /\ ids_' = r.ids_
    /\ got' = GotAfter(r.bids_, r.asks_, r.sent, {})
    /\ crashed' = r.crashed

\* the state when the call has returned with outcome r
CancelReturn(r) ==
    /\ CancelSettle(r)
    /\ hub' = r.sent

CancelExistingOrder(order) ==
    /\ ~crashed
    /\ call.op = "none"
    /\ frame = NoFrame
    /\ UNCHANGED frame
    /\ pre' = Snapshot
    /\ call' = [op |-> "CancelExistingOrder", arg |-> order, order |-> order]
    /\ \E r \in CancelResults(order, bids_, asks_, ids_) : CancelReturn(r)
    /\ UNCHANGED filled

\* ---- the caller ----
\* The engine is called one request at a time: the caller takes the messages
\* of the call and its Order, then makes the next call.
NextRequest ==
    /\ call.op # "none"
    /\ call' = NoCall
    /\ pre' = NoPre
    /\ hub' = <<>>
    /\ UNCHANGED <<bids_, asks_, ids_, filled, frame, got, crashed>>

Next ==
    \/ \E order \in Order : SubmitNewOrder(order)
    \/ \E id \in OrderIds : CancelExistingOrder([order_id_ |-> id])
    \/ NextRequest

Spec == Init /\ [][Next]_vars

(***************************************************************************)
(* The loop of ProcessOrder, one call of MatchOne per step.  A call that   *)
(* reaches the loop is split in LoopEnter, one LoopStep per call of        *)
(* MatchOne that returns nonzero, and LoopExit for the call that returns 0 *)
(* and the code after the loop.  The engine is single-threaded: the books  *)
(* are seen by nobody while the loop runs, so frame holds Other and ids_   *)
(* as the loop has them and the books are written at LoopExit.  The        *)
(* messages are not kept here (hub, call and pre stay as Init has them);   *)
(* the calls that return before the loop send a Reject and change nothing. *)
(***************************************************************************)
LoopEnter(order) ==
    /\ ~crashed
    /\ frame = NoFrame
    /\ ~IdFound(ids_, order.order_id_)
    /\ ~NoLiquidity(ResetOrder(order), Other(order))
    \* the bound MaxNodes: a call is made only if a node is left for it
    /\ Alloc(ResetOrder(order), This(order), Other(order),
             MatchLoop(ResetOrder(order), Other(order), Opposite(order.side_), ids_, <<>>)) # {}
    /\ frame' = [pc |-> "loop", order |-> ResetOrder(order),
                 other |-> Other(order), ids |-> ids_, sent |-> <<>>]
    /\ UNCHANGED <<bids_, asks_, ids_, hub, call, pre, filled, got, crashed>>

\* MatchOne returned r, nonzero: the loop goes on
StepOn(r) ==
    /\ LoopAgain(r.ret)
    /\ frame' = [frame EXCEPT !.order = r.order, !.other = r.other, !.ids = r.ids,
                              !.sent = @ \o r.sent]
    /\ UNCHANGED <<bids_, asks_, ids_, hub, call, pre, filled, got, crashed>>

LoopStep ==
    /\ frame.pc = "loop"
    /\ StepOn(MatchOne(frame.order, frame.other, Opposite(frame.order.side_), frame.ids))

\* what the loop leaves when its last call of MatchOne returned r
LoopResult(r) ==
    [order |-> r.order, other |-> r.other, ids |-> r.ids, sent |-> frame.sent \o r.sent]

\* the loop has ended with m: lines 204-220, and the return
StepOut(m) ==
    /\ \E addr \in Alloc(frame.order, This(frame.order), Other(frame.order), m) :
         Settle(frame.order, Dispose(This(frame.order), m, addr))
    /\ frame' = NoFrame
    /\ UNCHANGED <<hub, call, pre>>

\* ExitOn that never leaves the loop
ExitOn_Never(r) == FALSE

\* MatchOne returned r
ExitOn(r) ==
    /\ ~LoopAgain(r.ret)
    /\ StepOut(LoopResult(r))

LoopExit ==
    /\ frame.pc = "loop"
    /\ ExitOn(MatchOne(frame.order, frame.other, Opposite(frame.order.side_), frame.ids))

LoopCancel(order) ==
    /\ ~crashed
    /\ frame = NoFrame
    /\ \E r \in CancelResults(order, bids_, asks_, ids_) : CancelSettle(r)
    /\ UNCHANGED <<hub, call, pre, filled, frame>>

LoopNext ==
    \/ \E order \in Order : LoopEnter(order)
    \/ LoopStep
    \/ LoopExit
    \/ \E id \in OrderIds : LoopCancel([order_id_ |-> id])

\* a call that has entered the loop keeps running: the thread is not
\* preempted for ever
LoopSpec == Init /\ [][LoopNext]_vars /\ WF_vars(LoopStep) /\ WF_vars(LoopExit)

(***************************************************************************)
(* Properties.  A state with call.op # "none" is the state in which a call *)
(* has just returned: pre holds the books and the index the call started   *)
(* from, hub the messages it sent, call.order the caller's Order as left.  *)
(***************************************************************************)
IsSubmit == call.op = "SubmitNewOrder"
IsCancel == call.op = "CancelExistingOrder"

\* a SubmitNewOrder call that passed the look-up of its id
Accepted == IsSubmit /\ ~IdFound(pre.ids_, call.arg.order_id_)

ThisPre  == IF call.arg.side_ = "Buy" THEN pre.bids_ ELSE pre.asks_
OtherPre == IF call.arg.side_ = "Buy" THEN pre.asks_ ELSE pre.bids_
ThisNow  == IF call.arg.side_ = "Buy" THEN bids_ ELSE asks_
OtherNow == IF call.arg.side_ = "Buy" THEN asks_ ELSE bids_

RestingPre == BookIds(pre.bids_, pre.asks_)
RestingNow == BookIds(bids_, asks_)

Unchanged == bids_ = pre.bids_ /\ asks_ = pre.asks_ /\ ids_ = pre.ids_

\* a book without the insertion ranks, which are renumbered after every call
Orders(m) == [i \in 1..Len(m) |-> [m[i] EXCEPT !.seq = 0]]

FillIdx == {i \in 1..Len(hub) : hub[i].msg = "Fill"}
FillsOf(id) == {i \in FillIdx : hub[i].order_id_ = id}

\* q has priority over r in a book of the given side: better price, or the
\* same price and inserted earlier
Ahead(q, r, side) ==
    \/ Better(side, q.price_, r.price_)
    \/ (q.price_ = r.price_ /\ q.seq < r.seq)

\* the node of the opposite book, as the call found it, with the given id
OtherNode(id) == CHOOSE n \in Range(OtherPre) : n.order_id_ = id

\* C1: price/time priority. Whenever a resting order r receives a Fill in a
\* SubmitNewOrder call, every order that was ahead of r on that side (better
\* price, or same price and inserted earlier) has received all its Fills
\* before and has been consumed (it has left the book).
C1_PriceTimePriority ==
    Accepted =>
      \A r \in Range(OtherPre) : \A i \in FillsOf(r.order_id_) :
        \A q \in Range(OtherPre) :
          Ahead(q, r, Opposite(call.arg.side_)) =>
            /\ FillsOf(q.order_id_) # {}
            /\ \A j \in FillsOf(q.order_id_) : j < i
            /\ q.order_id_ \notin BookIds(OtherNow, <<>>)

\* two resting orders at one price both trade in one call, the older one
\* having been partially filled before the call
C1_Witness ==
    /\ Accepted
    /\ \E a, b \in Range(OtherPre) :
         /\ a.price_ = b.price_ /\ a.seq < b.seq
         /\ a.cum_qty_ > 0
         /\ FillsOf(a.order_id_) # {} /\ FillsOf(b.order_id_) # {}

\* C2: an id is in ids_ if and only if an order with that id rests in bids_
\* or asks_.
C2_IndexIffResting == DOMAIN ids_ = RestingNow

\* C3: CancelExistingOrder on the id of a resting order removes the order
\* from its book, removes the id from ids_ and sends exactly one Cancel.
C3_CancelRestingOrder ==
    (IsCancel /\ call.arg.order_id_ \in RestingPre) =>
      /\ hub = <<CancelMsg(call.arg.order_id_)>>
      /\ call.arg.order_id_ \notin RestingNow
      /\ call.arg.order_id_ \notin DOMAIN ids_

\* the first message of the pair of Fills that message i belongs to
PairStart(i) == IF i % 2 = 1 THEN i ELSE i - 1

\* C4: both Fills of a match carry the price of the resting order of that
\* match, for Limit and for Market incoming orders.
C4_FillAtRestingPrice ==
    Accepted =>
      \A i \in FillIdx :
        /\ PairStart(i) + 1 \in FillIdx
        /\ \E n \in Range(OtherPre) :
             /\ n.order_id_ \in {hub[PairStart(i)].order_id_, hub[PairStart(i) + 1].order_id_}
             /\ hub[i].price_ = n.price_

\* a Limit order traded at a price other than its own limit
C4_Witness ==
    /\ Accepted
    /\ call.arg.type_ = "Limit"
    /\ \E i \in FillIdx : hub[i].order_id_ = call.arg.order_id_ /\ hub[i].price_ # call.arg.price_

C6_CancelFilledRejects ==
    (IsCancel /\ call.arg.order_id_ \in filled) =>
      /\ hub = <<RejectMsg(call.arg.order_id_, IdNotFoundMessage)>>
      /\ Unchanged
      /\ ~crashed

\* C7: cancelling a resting order sends Cancel, and cancelling the same id
\* again right after sends Reject "Id not found." and changes no state.
C7_CancelTwice ==
    (IsCancel /\ call.arg.order_id_ \in RestingPre) =>
      /\ hub = <<CancelMsg(call.arg.order_id_)>>
      /\ \A r \in CancelResults(call.arg, bids_, asks_, ids_) :
           /\ r.sent = <<RejectMsg(call.arg.order_id_, IdNotFoundMessage)>>
           /\ r.bids_ = bids_ /\ r.asks_ = asks_ /\ r.ids_ = ids_
           /\ ~r.crashed

\* C8: SubmitNewOrder with an id that is in ids_ sends exactly one Reject
\* "Id already exists.", leaves both books (so every resting cum_qty_) and
\* ids_ as they were, and does not touch the submitted Order, cum_qty_ included.
C8_DuplicateIdIsPure ==
    (IsSubmit /\ IdFound(pre.ids_, call.arg.order_id_)) =>
      /\ hub = <<RejectMsg(call.arg.order_id_, IdAlreadyExistsMessage)>>
      /\ Unchanged
      /\ call.order = call.arg

\* a Market order with a nonzero cum_qty_ and the id of a resting order is
\* submitted while the opposite book has orders it could trade with
C8_Witness ==
    /\ IsSubmit
    /\ call.arg.order_id_ \in RestingPre
    /\ call.arg.type_ = "Market"
    /\ call.arg.cum_qty_ > 0
    /\ OtherPre # <<>>
    /\ hub = <<RejectMsg(call.arg.order_id_, IdAlreadyExistsMessage)>>

\* C9: SubmitNewOrder sends the Reject "Id already exists." only when an
\* order with the submitted id rests in a book.
C9_RejectOnlyWhenResting ==
    (IsSubmit /\ \E i \in 1..Len(hub) :
                    hub[i] = RejectMsg(call.arg.order_id_, IdAlreadyExistsMessage)) =>
      call.arg.order_id_ \in RestingPre

\* C10: no Market order is in bids_, asks_ or ids_: every node of the books
\* and every live node ids_ points at holds a Limit order, and a
\* SubmitNewOrder call of a Market order adds no entry to ids_.
C10_NoRestingMarket ==
    /\ \A n \in Range(bids_) \cup Range(asks_) : n.type_ = "Limit"
    /\ \A id \in DOMAIN ids_ :
         IsLive(ids_[id], bids_, asks_) => NodeAt(ids_[id], bids_, asks_).type_ = "Limit"
    /\ (IsSubmit /\ call.arg.type_ = "Market") => ids_ = pre.ids_

\* a Market order was partially filled and its remainder cancelled
C10_Witness ==
    /\ Accepted
    /\ call.arg.type_ = "Market"
    /\ FillIdx # {}
    /\ hub[Len(hub)] = CancelMsg(call.arg.order_id_)

\* the messages of the call that are the Reject "Not enough liquidity."
LiquidityRejects ==
    {i \in 1..Len(hub) : hub[i].msg = "Reject" /\ hub[i].message_ = NotEnoughLiquidityMessage}

RECURSIVE SumLeaves(_)
SumLeaves(m) == IF m = <<>> THEN 0 ELSE Leaves(m[1]) + SumLeaves(Tail(m))

MsgIdx(kind) == {i \in 1..Len(hub) : hub[i].msg = kind}

\* the quantity the Fills of the call report for the order with the given id
RECURSIVE SumFills(_, _)
SumFills(id, i) ==
    IF i = 0 THEN 0
    ELSE SumFills(id, i - 1)
           + (IF hub[i].msg = "Fill" /\ hub[i].order_id_ = id THEN hub[i].quantity_ ELSE 0)

HoldsSubmitted(n) ==
    /\ n.order_id_ = call.arg.order_id_
    /\ n.price_ = call.arg.price_
    /\ n.quantity_ = call.arg.quantity_
    /\ n.side_ = call.arg.side_
    /\ n.type_ = call.arg.type_
    /\ n.cum_qty_ = SumFills(call.arg.order_id_, Len(hub))

\* position k of the own book is where an order at the submitted price goes:
\* after every node priced better or equally, before every node priced worse
BehindItsPrice(k) ==
    /\ \A j \in 1..(k - 1) : ~Better(call.arg.side_, call.arg.price_, ThisNow[j].price_)
    /\ \A j \in (k + 1)..Len(ThisNow) : Better(call.arg.side_, call.arg.price_, ThisNow[j].price_)

\* C13: a Limit order whose Fills leave part of its quantity is put in the
\* book of its own side at its limit price, behind every order that rested
\* there at that price, with the cum_qty_ of its Fills; the rest of that
\* book is as before; ids_ maps its id to the new node; one OrderAck with
\* its id is the last message, and every message before it is a Fill.
C13_LimitRemainderRests ==
    (/\ Accepted
     /\ call.arg.type_ = "Limit"
     /\ call.arg.quantity_ > SumFills(call.arg.order_id_, Len(hub))) =>
      /\ \E k \in 1..Len(ThisNow) :
           /\ HoldsSubmitted(ThisNow[k])
           /\ BehindItsPrice(k)
           /\ \A j \in 1..Len(ThisNow) : j # k => ThisNow[j].seq < ThisNow[k].seq
           /\ Orders(RemoveAt(ThisNow, k)) = Orders(ThisPre)
           /\ IdFound(ids_, call.arg.order_id_)
           /\ ids_[call.arg.order_id_] = ThisNow[k].node
      /\ call.arg.order_id_ \notin BookIds(OtherNow, <<>>)
      /\ hub # <<>>
      /\ hub[Len(hub)] = OrderAckMsg(call.arg.order_id_)
      /\ \A i \in 1..(Len(hub) - 1) : hub[i].msg = "Fill"

\* a Limit order traded part of its quantity and its remainder went ahead of
\* an order resting at a worse price
C13_Witness ==
    /\ Accepted
    /\ call.arg.type_ = "Limit"
    /\ FillIdx # {}
    /\ ThisPre # <<>>
    /\ MsgIdx("OrderAck") # {}
    /\ ThisNow[1].order_id_ = call.arg.order_id_
    /\ ThisNow[1].cum_qty_ > 0

\* C14: an order, Limit or Market, for which the matching loop ran and whose
\* Fills add up to its quantity gets Fill messages only (no OrderAck, Cancel
\* or Reject), and enters neither a book nor ids_: the book of its own side
\* is as before.
C14_FullyFilledOnlyFills ==
    (/\ Accepted
     /\ ~(call.arg.type_ = "Market" /\ OtherPre = <<>>)
     /\ SumFills(call.arg.order_id_, Len(hub)) = call.arg.quantity_) =>
      /\ \A i \in 1..Len(hub) : hub[i].msg = "Fill"
      /\ call.arg.quantity_ > 0 => hub # <<>>
      /\ Orders(ThisNow) = Orders(ThisPre)
      /\ call.arg.order_id_ \notin RestingNow
      /\ call.arg.order_id_ \notin DOMAIN ids_

\* a Limit order was filled completely while an order rested on its own side
C14_Witness ==
    /\ Accepted
    /\ call.arg.type_ = "Limit"
    /\ ThisPre # <<>>
    /\ FillsOf(call.arg.order_id_) # {}
    /\ SumFills(call.arg.order_id_, Len(hub)) = call.arg.quantity_

\* the resting order of the pair of Fills that starts at message i
PairResting(i) ==
    IF hub[i].order_id_ = call.arg.order_id_ THEN hub[i + 1].order_id_ ELSE hub[i].order_id_

\* quantity_ - cum_qty_ of the incoming order and of the resting order n just
\* before message i was sent
IncomingLeavesAt(i) == call.arg.quantity_ - SumFills(call.arg.order_id_, i - 1)
RestingLeavesAt(n, i) == Leaves(n) - SumFills(n.order_id_, i - 1)

\* C15: every match trades min(leaves of the incoming order, leaves of the
\* resting order): both Fills of the pair carry that quantity, which is at
\* most what either order had left when Fill was called (the assertion at
\* line 259); the cum_qty_ of the incoming order and of every resting order
\* grows by the quantities of its Fills; and no order resting in a book or
\* being processed has cum_qty_ above quantity_.
C15_QuantityConservation ==
    /\ \A n \in Range(bids_) \cup Range(asks_) : n.cum_qty_ <= n.quantity_
    /\ Accepted =>
         /\ call.order.cum_qty_ <= call.order.quantity_
         /\ call.order.cum_qty_ = SumFills(call.arg.order_id_, Len(hub))
         /\ \A i \in FillIdx : i % 2 = 1 =>
              /\ i + 1 \in FillIdx
              /\ PairResting(i) \in BookIds(OtherPre, <<>>)
              /\ hub[i].quantity_ = Min(IncomingLeavesAt(i),
                                        RestingLeavesAt(OtherNode(PairResting(i)), i))
              /\ hub[i + 1].quantity_ = hub[i].quantity_
              /\ hub[i].quantity_ > 0
         /\ \A n \in Range(OtherPre) :
              /\ n.cum_qty_ + SumFills(n.order_id_, Len(hub)) <= n.quantity_
              /\ \A q \in Range(OtherNow) : q.order_id_ = n.order_id_ =>
                    q.cum_qty_ = n.cum_qty_ + SumFills(n.order_id_, Len(hub))
              /\ n.order_id_ \notin BookIds(OtherNow, <<>>) =>
                    n.cum_qty_ + SumFills(n.order_id_, Len(hub)) = n.quantity_

\* an order submitted with a nonzero cum_qty_ traded with a resting order
\* that had traded before
C15_Witness ==
    /\ Accepted
    /\ call.arg.cum_qty_ > 0
    /\ FillIdx # {}
    /\ \E n \in Range(OtherPre) : n.cum_qty_ > 0 /\ FillsOf(n.order_id_) # {}

\* price p is no worse than the limit of the submitted order: at or below it
\* for a Buy, at or above it for a Sell
WithinLimit(p) ==
    IF call.arg.side_ = "Buy" THEN p <= call.arg.price_ ELSE p >= call.arg.price_

\* C16: a Limit order trades only with resting orders priced within its
\* limit (asks at or below the limit of a Buy, bids at or above the limit of
\* a Sell) and every Fill of the call carries such a price; a resting order
\* is filled at its own price; and an equal price does cross: when the best
\* opposite order is priced within the limit, the equal price included, and
\* the incoming order has quantity, that order is filled.
C16_LimitPriceProtection ==
    Accepted =>
      /\ call.arg.type_ = "Limit" =>
           /\ \A i \in FillIdx : WithinLimit(hub[i].price_)
           /\ \A n \in Range(OtherPre) :
                FillsOf(n.order_id_) # {} => WithinLimit(n.price_)
           /\ (/\ OtherPre # <<>>
               /\ call.arg.quantity_ > 0
               /\ WithinLimit(OtherPre[1].price_)) =>
                 /\ FillsOf(OtherPre[1].order_id_) # {}
                 /\ FillsOf(call.arg.order_id_) # {}
      /\ \A n \in Range(OtherPre) : \A i \in FillsOf(n.order_id_) :
           hub[i].price_ = n.price_

\* a Limit order traded with the best opposite order, priced exactly at its
\* limit, stopped at the next one, priced beyond its limit, and rested
C16_Witness ==
    /\ Accepted
    /\ call.arg.type_ = "Limit"
    /\ \E n \in Range(OtherPre) :
         n.price_ = call.arg.price_ /\ FillsOf(n.order_id_) # {}
    /\ OtherNow # <<>>
    /\ ~WithinLimit(OtherNow[1].price_)
    /\ call.arg.order_id_ \in BookIds(ThisNow, <<>>)

\* messages 2j-1 and 2j are the two Fills of one match: same quantity, same
\* price, one names the submitted order and the other an order that rested
\* on the opposite side
IsFillPair(j) ==
    /\ hub[2 * j - 1].msg = "Fill"
    /\ hub[2 * j].msg = "Fill"
    /\ hub[2 * j - 1].quantity_ = hub[2 * j].quantity_
    /\ hub[2 * j - 1].price_ = hub[2 * j].price_
    /\ \E r \in BookIds(OtherPre, <<>>) :
         {hub[2 * j - 1].order_id_, hub[2 * j].order_id_} = {call.arg.order_id_, r}

\* the messages of the call are k pairs of Fills and then the given tail
FillPairsThen(k, tail) ==
    /\ Len(hub) = 2 * k + Len(tail)
    /\ \A j \in 1..k : IsFillPair(j)
    /\ \A t \in 1..Len(tail) : hub[2 * k + t] = tail[t]

FilledQty == SumFills(call.arg.order_id_, Len(hub))

\* C17: the messages of a SubmitNewOrder call with quantity_ > 0 are either
\* one Reject alone, or k >= 0 pairs of Fills followed by nothing when the
\* Fills add up to the quantity (then k >= 1), by one OrderAck when the order
\* is a Limit with a remainder, or by one Cancel when it is a Market with a
\* remainder; there is always at least one message.
C17_MessageShapes ==
    (IsSubmit /\ call.arg.quantity_ > 0) =>
      /\ hub # <<>>
      /\ \/ /\ Len(hub) = 1
            /\ hub[1].msg = "Reject"
            /\ hub[1].order_id_ = call.arg.order_id_
         \/ \E k \in 0..Len(hub) :
              \/ /\ FillPairsThen(k, <<>>)
                 /\ k >= 1
                 /\ FilledQty = call.arg.quantity_
              \/ /\ FillPairsThen(k, <<OrderAckMsg(call.arg.order_id_)>>)
                 /\ call.arg.type_ = "Limit"
                 /\ FilledQty < call.arg.quantity_
              \/ /\ FillPairsThen(k, <<CancelMsg(call.arg.order_id_)>>)
                 /\ call.arg.type_ = "Market"
                 /\ FilledQty < call.arg.quantity_

\* one pair of Fills followed by the OrderAck of the remainder
C17_Witness ==
    /\ IsSubmit
    /\ call.arg.quantity_ > 0
    /\ Len(hub) = 3
    /\ hub[1].msg = "Fill"
    /\ hub[3].msg = "OrderAck"

\* every outcome of CancelExistingOrder on the id of the call just made, if
\* it were called now, is one Reject "Id not found." and no change
CancelNowRejects ==
    \A r \in CancelResults([order_id_ |-> call.arg.order_id_], bids_, asks_, ids_) :
      /\ r.sent = <<RejectMsg(call.arg.order_id_, IdNotFoundMessage)>>
      /\ r.bids_ = bids_ /\ r.asks_ = asks_ /\ r.ids_ = ids_
      /\ ~r.crashed

AtPrice(p) ==
    ProcessOrder(ResetOrder([call.arg EXCEPT !.price_ = p]), ThisPre, OtherPre, pre.ids_, 0)

\* C19: the price of a Market order has no effect. After a SubmitNewOrder
\* call of a Market order, the same order with any other price, submitted in
\* the state the call started from, gives the same messages, the same books
\* and the same ids_, and leaves the same cum_qty_ in the caller's Order; and
\* a Market order with quantity that finds the opposite book non-empty
\* trades with its first order, whatever the two prices.
C19_MarketPriceIgnored ==
    (IsSubmit /\ call.arg.type_ = "Market") =>
      /\ Accepted =>
           \A p \in Prices :
             /\ AtPrice(p).sent = hub
             /\ Orders(AtPrice(p).this) = Orders(ThisNow)
             /\ Orders(AtPrice(p).other) = Orders(OtherNow)
             /\ AtPrice(p).ids = ids_
             /\ AtPrice(p).order = [call.order EXCEPT !.price_ = p]
      /\ ~Accepted =>
           /\ hub = <<RejectMsg(call.arg.order_id_, IdAlreadyExistsMessage)>>
           /\ Unchanged
      /\ (Accepted /\ OtherPre # <<>> /\ call.arg.quantity_ > 0) =>
           /\ Len(hub) >= 2
           /\ {hub[1].order_id_, hub[2].order_id_}
                 = {call.arg.order_id_, OtherPre[1].order_id_}
           /\ hub[1].msg = "Fill" /\ hub[2].msg = "Fill"

\* a Market order traded with a resting order whose price a Limit order of
\* the same price would not have accepted
C19_Witness ==
    /\ Accepted
    /\ call.arg.type_ = "Market"
    /\ FillIdx # {}
    /\ \E i \in FillIdx : ~WithinLimit(hub[i].price_)

\* node q is the order of node n, still resting: nothing but cum_qty_ (and
\* the insertion rank, which is relative) differs, and cum_qty_ is no lower
SameOrderResting(n, q) ==
    /\ [q EXCEPT !.cum_qty_ = 0, !.seq = 0] = [n EXCEPT !.cum_qty_ = 0, !.seq = 0]
    /\ q.cum_qty_ >= n.cum_qty_

\* the order of node n of book m was, in the call just made, the resting
\* order of a match: the call is an accepted submission on the other side,
\* n got Fills, and every order before n in m was consumed
MatchedAsBest(n, m) ==
    /\ Accepted
    /\ m = OtherPre
    /\ FillsOf(n.order_id_) # {}
    /\ \A j \in 1..Len(m) : m[j].order_id_ = n.order_id_ =>
         \A h \in 1..(j - 1) : m[h].order_id_ \notin BookIds(OtherNow, <<>>)

\* the orders of book before that still rest after the call are in book
\* after, unchanged but for the cum_qty_ of an order matched as best
RestingKept(before, after, otherAfter) ==
    \A n \in Range(before) :
      /\ n.order_id_ \notin BookIds(otherAfter, <<>>)
      /\ \A q \in Range(after) : q.order_id_ = n.order_id_ =>
           /\ SameOrderResting(n, q)
           /\ q.cum_qty_ # n.cum_qty_ =>
                /\ MatchedAsBest(n, before)
                /\ q.cum_qty_ = n.cum_qty_ + SumFills(n.order_id_, Len(hub))

\* C20: across every call, an order that rests before and after it keeps
\* its order_id_, side_, type_, price_ and quantity_ (and its node and its
\* book); its cum_qty_ does not decrease, and changes only when the call is
\* a submission in which it was matched as the first order of the opposite
\* book, by the quantity of its Fills.
C20_RestingOrderFixed ==
    call.op # "none" =>
      /\ RestingKept(pre.bids_, bids_, asks_)
      /\ RestingKept(pre.asks_, asks_, bids_)

\* a resting order was partially filled and still rests
C20_Witness ==
    /\ Accepted
    /\ OtherNow # <<>>
    /\ FillsOf(OtherNow[1].order_id_) # {}
    /\ OtherNow[1].cum_qty_ > 0
    /\ OtherNow[1].cum_qty_ < OtherNow[1].quantity_

\* C21: the loop ends only when the incoming order has nothing left or no
\* match is possible: when a Cancel is sent for the remainder of a Market
\* order the opposite book is empty; when an OrderAck is sent for a Limit
\* order the opposite book is empty or its first order is priced beyond the
\* limit; and an order for which the loop ran and left the opposite book
\* with an order it could trade with has been filled completely.
C21_LoopRunsToTheEnd ==
    Accepted =>
      /\ MsgIdx("Cancel") # {} => OtherNow = <<>>
      /\ MsgIdx("OrderAck") # {} =>
           (OtherNow = <<>> \/ ~WithinLimit(OtherNow[1].price_))
      /\ (/\ OtherNow # <<>>
          /\ (call.arg.type_ = "Market" \/ WithinLimit(OtherNow[1].price_))) =>
            FilledQty = call.arg.quantity_

\* a Limit order took all there was on the opposite side and its remainder
\* was acknowledged
C21_Witness ==
    /\ Accepted
    /\ call.arg.type_ = "Limit"
    /\ FillIdx # {}
    /\ OtherNow = <<>>
    /\ MsgIdx("OrderAck") = {Len(hub)}

\* C22: in the state every call leaves, every order of bids_ and of asks_
\* has cum_qty_ strictly below quantity_; a resting order whose Fills in a
\* call bring its cum_qty_ to its quantity_ is no longer in its book after
\* the call, and an incoming order whose Fills add up to its quantity_ is
\* in no book.
C22_RestingHasLeaves ==
    /\ \A n \in Range(bids_) \cup Range(asks_) : n.cum_qty_ < n.quantity_
    /\ Accepted =>
         /\ \A n \in Range(OtherPre) :
              n.cum_qty_ + SumFills(n.order_id_, Len(hub)) = n.quantity_
                => n.order_id_ \notin RestingNow
         /\ FilledQty = call.arg.quantity_ => call.arg.order_id_ \notin RestingNow

\* a match consumed the first order of the opposite book and left the
\* second one resting
C22_Witness ==
    /\ Accepted
    /\ Len(OtherPre) = 2
    /\ Len(OtherNow) = 1
    /\ FillsOf(OtherPre[1].order_id_) # {}
    /\ OtherNow[1].order_id_ = OtherPre[2].order_id_

NewAddr ==
    IF call.arg.order_id_ \in BookIds(ThisNow, <<>>)
    THEN (CHOOSE n \in Range(ThisNow) : n.order_id_ = call.arg.order_id_).node
    ELSE 0

\* what SubmitNewOrder does past the look-up of the id, from the state the
\* call started in, with the submitted order carrying cum_qty_ c instead
AtCum(c) ==
    ProcessOrder(ResetOrder([call.arg EXCEPT !.cum_qty_ = c]), ThisPre, OtherPre,
                 pre.ids_, NewAddr)

\* C24: a SubmitNewOrder call with an id that is not in ids_ ignores the
\* cum_qty_ the caller supplied: the same order with any other cum_qty_,
\* submitted in the state the call started from, gives the same messages,
\* the same books, the same ids_ and the same final cum_qty_, which is the
\* quantity of the Fills of the call.
C24_SuppliedCumIgnored ==
    Accepted =>
      /\ \A c \in Cums :
           /\ AtCum(c).sent = hub
           /\ Orders(AtCum(c).this) = Orders(ThisNow)
           /\ Orders(AtCum(c).other) = Orders(OtherNow)
           /\ AtCum(c).ids = ids_
           /\ AtCum(c).order = call.order
      /\ call.order.cum_qty_ = FilledQty

\* a Limit order submitted with cum_qty_ set traded part of its quantity
\* and rested with the cum_qty_ of that trade
C24_Witness ==
    /\ Accepted
    /\ call.arg.cum_qty_ > 0
    /\ FillIdx # {}
    /\ NewAddr # 0
    /\ call.order.cum_qty_ < call.order.quantity_

\* book m without the node of the order with the given id
Without(m, id) == SelectSeq(m, LAMBDA n : n.order_id_ # id)

\* every outcome of CancelExistingOrder on id, if it were called now, is one
\* Cancel, the order with that id gone and every other order still resting
LaterCancelRemoves(id) ==
    \A r \in CancelResults([order_id_ |-> id], bids_, asks_, ids_) :
      /\ r.sent = <<CancelMsg(id)>>
      /\ ~r.crashed
      /\ Orders(r.bids_) = Orders(Without(bids_, id))
      /\ Orders(r.asks_) = Orders(Without(asks_, id))

\* C25: a CancelExistingOrder call that sends Cancel removes the order with
\* the requested id, which rested, and nothing else: both books are as
\* before but for that order (fields, cum_qty_ and relative order of the
\* others kept), ids_ is as before but for that id, and a cancel of any
\* order still resting would remove that order and no other.
C25_CancelRemovesOnlyItsOrder ==
    (IsCancel /\ MsgIdx("Cancel") # {}) =>
      /\ call.arg.order_id_ \in RestingPre
      /\ Orders(bids_) = Orders(Without(pre.bids_, call.arg.order_id_))
      /\ Orders(asks_) = Orders(Without(pre.asks_, call.arg.order_id_))
      /\ ids_ = IdsErase(pre.ids_, call.arg.order_id_)
      /\ \A id \in RestingNow : LaterCancelRemoves(id)

\* C26: the book is not crossed in the state a call leaves (nor between
\* calls): when both books hold orders, the price of the first bid, the
\* highest, is strictly below the price of the first ask, the lowest.
C26_BookNotCrossed ==
    (bids_ # <<>> /\ asks_ # <<>>) =>
      /\ bids_[1].price_ < asks_[1].price_
      /\ \A b \in Range(bids_) : \A a \in Range(asks_) : b.price_ < a.price_

\* a Limit order traded and rested one tick from the opposite book
C26_Witness ==
    /\ Accepted
    /\ FillIdx # {}
    /\ bids_ # <<>>
    /\ asks_ # <<>>
    /\ call.arg.order_id_ \in RestingNow
    /\ bids_[1].price_ + 1 = asks_[1].price_

\* the opposite book lost its first k orders, each filled in the call; the
\* order now first is the one that followed them, with at most its cum_qty_
\* grown; the orders behind it are as they were and got no Fill
FrontConsumed(k) ==
    /\ Len(OtherNow) = Len(OtherPre) - k
    /\ \A j \in 1..k : FillsOf(OtherPre[j].order_id_) # {}
    /\ OtherNow # <<>> => SameOrderResting(OtherPre[k + 1], OtherNow[1])
    /\ \A j \in 2..Len(OtherNow) :
         /\ Orders(OtherNow)[j] = Orders(OtherPre)[k + j]
         /\ FillsOf(OtherNow[j].order_id_) = {}

\* C27: a SubmitNewOrder call changes the book of its own side by at most
\* one insertion, that of the remainder of the submitted Limit order: the
\* orders that rested there are all still there, with the same fields and
\* cum_qty_, in the same order, and got no Fill. It changes the opposite
\* book only at the front: some first orders are filled and removed, the
\* next one may be filled in part, and no order behind an order that still
\* has leaves is touched. A rejected duplicate changes nothing.
C27_SubmitFrame ==
    IsSubmit =>
      /\ Accepted =>
           /\ Orders(Without(ThisNow, call.arg.order_id_)) = Orders(ThisPre)
           /\ Len(ThisNow) <= Len(ThisPre) + 1
           /\ Len(ThisNow) = Len(ThisPre) + 1 =>
                (call.arg.type_ = "Limit" /\ FilledQty < call.arg.quantity_)
           /\ \A n \in Range(ThisPre) : FillsOf(n.order_id_) = {}
           /\ \E k \in 0..Len(OtherPre) : FrontConsumed(k)
      /\ ~Accepted => Unchanged

\* a submission consumed the first order of the opposite book, filled the
\* second in part and left the own side as it was
C27_Witness ==
    /\ Accepted
    /\ Len(OtherPre) = 2
    /\ Len(OtherNow) = 1
    /\ FillsOf(OtherNow[1].order_id_) # {}
    /\ ThisNow = <<>>

\* the side of the order message i names: that of the resting order with
\* that id, else that of the submitted order when it is its id
SideNamed(i) ==
    IF hub[i].order_id_ \in BookIds(OtherPre, <<>>) THEN OtherNode(hub[i].order_id_).side_
    ELSE IF hub[i].order_id_ = call.arg.order_id_ THEN call.arg.side_
    ELSE "none"

\* the quantity of the Fills among the first i messages that name an order
\* of the given side
RECURSIVE SideQty(_, _)
SideQty(side, i) ==
    IF i = 0 THEN 0
    ELSE SideQty(side, i - 1)
           + (IF hub[i].msg = "Fill" /\ SideNamed(i) = side THEN hub[i].quantity_ ELSE 0)

\* C28: the Fill messages account for every fill. For every resting order
\* the quantity of all the Fills sent with its id since it was accepted
\* equals its cum_qty_ and is at most its quantity_; the same holds for the
\* order a call has just processed, so that when a Cancel ends the call of
\* a Market order, every Fill of the order precedes it and what is
\* cancelled is quantity_ minus those Fills, more than 0; and in every call
\* the Fills on Buy orders and the Fills on Sell orders carry the same
\* total quantity.
C28_FillsAccountForCum ==
    /\ DOMAIN got = RestingNow
    /\ \A n \in Range(bids_) \cup Range(asks_) :
         /\ got[n.order_id_] = n.cum_qty_
         /\ got[n.order_id_] <= n.quantity_
    /\ Accepted =>
         /\ FilledQty = call.order.cum_qty_
         /\ FilledQty <= call.arg.quantity_
         /\ \A i \in MsgIdx("Cancel") :
              /\ i = Len(hub)
              /\ Leaves(call.order) = call.arg.quantity_ - SumFills(call.arg.order_id_, i - 1)
              /\ Leaves(call.order) > 0
         /\ SideQty("Buy", Len(hub)) = SideQty("Sell", Len(hub))
         /\ \A i \in FillIdx : SideNamed(i) \in Side

\* a call sent Fills while an order filled in part by an earlier call
\* rested, out of reach
C28_Witness ==
    /\ Accepted
    /\ FillIdx # {}
    /\ \E n \in Range(bids_) \cup Range(asks_) :
         got[n.order_id_] > 0 /\ FillsOf(n.order_id_) = {}

\* the matches the loop has made so far, two Fills each
MatchesDone == Len(frame.sent) \div 2

\* while the loop runs: it has made no more matches than orders rested on
\* the opposite side when it started; every match removed the first order
\* of that side, except that the last one may have left it, the incoming
\* order then having nothing left; and every match traded more than 0
LoopBound ==
    frame.pc = "loop" =>
      /\ MatchesDone <= Len(Other(frame.order))
      /\ \/ Len(frame.other) = Len(Other(frame.order)) - MatchesDone
         \/ /\ Len(frame.other) = Len(Other(frame.order)) - MatchesDone + 1
            /\ Leaves(frame.order) = 0
      /\ \A i \in 1..Len(frame.sent) : frame.sent[i].quantity_ > 0

\* C29: every SubmitNewOrder call that enters the matching loop leaves it
\* and returns (no behaviour stays in the loop for ever: the engine is
\* again and again between calls), after at most as many successful matches as orders rested
\* on the opposite side at entry: each successful match but possibly the
\* last removes the first resting order, and no match trades 0.
C29_LoopTerminates ==
    /\ [](LoopBound)
    /\ []<>(frame = NoFrame)

\* the loop has made two matches and emptied the opposite side
C29_Witness ==
    /\ frame.pc = "loop"
    /\ MatchesDone = 2
    /\ Len(Other(frame.order)) = 2
    /\ frame.other = <<>>

====
